---------------------------- MODULE Spec2Model ----------------------------
(***************************************************************************)
(* Model of the Assimp bridging layer in asset-importer-sys/wrapper.cpp:   *)
(* the thread-local error channel, the four import/export entry points,    *)
(* the aiFileIO adapter (RustIOSystem / RustIOStream), the progress        *)
(* adapter (BridgeProgressHandler) and the property marshallers.  The      *)
(* wrapped engine (Assimp::Importer / Assimp::Exporter) is an external     *)
(* collaborator: what it returns, which error string it reports and what   *)
(* its destructor does with registered handlers are nondeterministic       *)
(* choices.                                                                *)
(*                                                                         *)
(* C pointers are modelled as sequences of length at most one: NULL is the *)
(* empty sequence and Ptr(x) points at x, so that a null string and a      *)
(* pointer to the empty string stay different values.                      *)
(***************************************************************************)
EXTENDS Integers, Sequences, FiniteSets, TLC

VARIABLES
    noExport,          \* TRUE iff built with ASSIMP_BUILD_NO_EXPORT
    g_last_error_msg,  \* thread -> std::string, the thread_local slot
    pc,                \* thread -> position inside the running entry point
    call,              \* thread -> arguments of the current / most recent call
    bridge,            \* thread -> locals of the running call frame
    sink,              \* thread -> set-property calls received by the engine
    log,               \* thread -> engine-layer operations of the call
    heap,              \* thread -> scene objects that are live
    ret,               \* thread -> value the most recent call returned (or was
                       \*           returning when the process crashed)
    got,               \* thread -> value the last aiGetLastErrorStringRust returned
    slotAtEntry,       \* thread -> what the slot held when the call was entered
    engineError,       \* thread -> error string the engine reported in the call
    adapters,          \* thread -> adapters the call constructed, and their releases
    engineOps,         \* thread -> engine operations the call invoked, with the
                       \*           argument that names what is read or written
    m_fileio,          \* RustIOSystem::m_fileio, the caller's aiFileIO table
    files,             \* aiFile handles the table's OpenProc has produced
    streams,           \* RustIOStream objects RustIOSystem::Open has created
    ioLast,            \* the most recent RustIOSystem call and what it did
    mProps,            \* marshaller input: pointer to the descriptor array
    mCount,            \* marshaller input: count
    mDone,             \* which marshallers have run
    mSink,             \* set-property calls the import marshaller issued
    mExportSink,       \* set-property calls the export marshaller issued
    phCb,              \* BridgeProgressHandler::cb is not null
    phUser,            \* BridgeProgressHandler::user
    phLast             \* the most recent notification and what it did

apiVars == <<noExport, g_last_error_msg, pc, call, bridge, sink, log, heap,
             ret, got, slotAtEntry, engineError, adapters,
             engineOps>>
ioVars == <<m_fileio, files, streams, ioLast>>
mVars == <<mProps, mCount, mDone, mSink, mExportSink>>
phVars == <<phCb, phUser, phLast>>

vars == <<apiVars, ioVars, mVars, phVars>>

---------------------------------------------------------------------------
(* Pointers *)

NULL == <<>>
Ptr(x) == <<x>>
Deref(p) == p[1]

---------------------------------------------------------------------------
(* wrapper.h: property kinds and descriptors *)

aiRustPropertyKind_Integer == 0
aiRustPropertyKind_Float == 1
aiRustPropertyKind_String == 2
aiRustPropertyKind_Matrix4x4 == 3
aiRustPropertyKind_Boolean == 4

\* One set-property call as the engine's property sink receives it.  Every
\* call carries all payload slots; the slots its operation does not take
\* hold the neutral value.
\* (int for an integer, bool for a boolean, val for a float, a string or a
\* dereferenced matrix).
SetCall(op, name, i, b, v) ==
    [op |-> op, name |-> name, int |-> i, bool |-> b, val |-> v]

\* struct aiRustProperty
aiRustProperty(name, kind, int_value, float_value, string_value, matrix_value) ==
    [name |-> name, kind |-> kind, int_value |-> int_value,
     float_value |-> float_value, string_value |-> string_value,
     matrix_value |-> matrix_value]

---------------------------------------------------------------------------
(* Property marshallers, wrapper.cpp 148-205.  The target (Importer or     *)
(* ExportProperties) is the sequence of set-property calls it has        *)
(* received.  props is a pointer to the descriptor array.                  *)

\* Mutant of apply_properties_body: a Boolean is true only for the value 1.
apply_properties_body_Bool1(importer, p) ==
    IF p.name = NULL THEN importer
    ELSE CASE p.kind = aiRustPropertyKind_Integer ->
                Append(importer, SetCall("SetPropertyInteger", Deref(p.name),
                                         p.int_value, FALSE, ""))
           [] p.kind = aiRustPropertyKind_Boolean ->
                Append(importer, SetCall("SetPropertyBool", Deref(p.name),
                                         0, p.int_value = 1, ""))
           [] p.kind = aiRustPropertyKind_Float ->
                Append(importer, SetCall("SetPropertyFloat", Deref(p.name),
                                         0, FALSE, p.float_value))
           [] p.kind = aiRustPropertyKind_String ->
                Append(importer, SetCall("SetPropertyString", Deref(p.name),
                                         0, FALSE,
                                         IF p.string_value # NULL
                                         THEN Deref(p.string_value) ELSE ""))
           [] p.kind = aiRustPropertyKind_Matrix4x4 ->
                IF p.matrix_value # NULL
                THEN Append(importer, SetCall("SetPropertyMatrix", Deref(p.name),
                                              0, FALSE, Deref(p.matrix_value)))
                ELSE importer
           [] OTHER -> importer

\* Body of the for loop of apply_properties for descriptor p.
apply_properties_body(importer, p) ==
    IF p.name = NULL THEN importer
    ELSE CASE p.kind = aiRustPropertyKind_Integer ->
                Append(importer, SetCall("SetPropertyInteger", Deref(p.name),
                                         p.int_value, FALSE, ""))
           [] p.kind = aiRustPropertyKind_Boolean ->
                Append(importer, SetCall("SetPropertyBool", Deref(p.name),
                                         0, p.int_value # 0, ""))
           [] p.kind = aiRustPropertyKind_Float ->
                Append(importer, SetCall("SetPropertyFloat", Deref(p.name),
                                         0, FALSE, p.float_value))
           [] p.kind = aiRustPropertyKind_String ->
                Append(importer, SetCall("SetPropertyString", Deref(p.name),
                                         0, FALSE,
                                         IF p.string_value # NULL
                                         THEN Deref(p.string_value) ELSE ""))
           [] p.kind = aiRustPropertyKind_Matrix4x4 ->
                IF p.matrix_value # NULL
                THEN Append(importer, SetCall("SetPropertyMatrix", Deref(p.name),
                                              0, FALSE, Deref(p.matrix_value)))
                ELSE importer
           [] OTHER -> importer

RECURSIVE apply_properties_loop(_, _, _, _)
apply_properties_loop(importer, props, count, i) ==
    IF i >= count THEN importer
    ELSE apply_properties_loop(apply_properties_body(importer, Deref(props)[i + 1]),
                               props, count, i + 1)

apply_properties(importer, props, count) ==
    IF props = NULL THEN importer
    ELSE apply_properties_loop(importer, props, count, 0)

\* Mutant of apply_export_properties_body: only integers are applied.
apply_export_properties_body_IntegerOnly(target, p) ==
    IF p.name = NULL THEN target
    ELSE IF p.kind = aiRustPropertyKind_Integer
    THEN Append(target, SetCall("SetPropertyInteger", Deref(p.name),
                                p.int_value, FALSE, ""))
    ELSE target

\* Body of the for loop of apply_export_properties for descriptor p.
apply_export_properties_body(target, p) ==
    IF p.name = NULL THEN target
    ELSE CASE p.kind = aiRustPropertyKind_Integer ->
                Append(target, SetCall("SetPropertyInteger", Deref(p.name),
                                       p.int_value, FALSE, ""))
           [] p.kind = aiRustPropertyKind_Boolean ->
                Append(target, SetCall("SetPropertyBool", Deref(p.name),
                                       0, p.int_value # 0, ""))
           [] p.kind = aiRustPropertyKind_Float ->
                Append(target, SetCall("SetPropertyFloat", Deref(p.name),
                                       0, FALSE, p.float_value))
           [] p.kind = aiRustPropertyKind_String ->
                Append(target, SetCall("SetPropertyString", Deref(p.name),
                                       0, FALSE,
                                       IF p.string_value # NULL
                                       THEN Deref(p.string_value) ELSE ""))
           [] p.kind = aiRustPropertyKind_Matrix4x4 ->
                IF p.matrix_value # NULL
                THEN Append(target, SetCall("SetPropertyMatrix", Deref(p.name),
                                            0, FALSE, Deref(p.matrix_value)))
                ELSE target
           [] OTHER -> target

RECURSIVE apply_export_properties_loop(_, _, _, _)
apply_export_properties_loop(target, props, count, i) ==
    IF i >= count THEN target
    ELSE apply_export_properties_loop(
             apply_export_properties_body(target, Deref(props)[i + 1]),
             props, count, i + 1)

apply_export_properties(target, props, count) ==
    IF props = NULL THEN target
    ELSE apply_export_properties_loop(target, props, count, 0)

---------------------------------------------------------------------------
(* Error channel and entry points, wrapper.cpp 208-395 *)

\* T1 is the caller of the single-threaded specification, T2 and T3 are the
\* two callers of the concurrent one.
Threads == {"T1", "T2", "T3"}
Concurrent == {"T2", "T3"}

\* Mutant of Slot: one slot for the whole process.
Slot_Shared(t) == "T1"

\* static thread_local std::string g_last_error_msg: the slot a thread's
\* accesses resolve to is the thread's own.
Slot(t) == t

\* The fixed messages the bridge itself writes.
MsgPathNull == "Path is null"
MsgBufferEmpty == "Memory buffer is empty"
MsgNoExport == "Assimp was built without export support (ASSIMP_BUILD_NO_EXPORT)"
MsgSceneNull == "Scene is null"
MsgFormatOrPathNull == "Format ID or path is null"
MsgFormatNull == "Format ID is null"
MsgCopyNull == "aiCopyScene returned null"

\* What Importer::GetErrorString / Exporter::GetErrorString may hold after a
\* failed engine operation: any std::string, the empty one included.
EngineErrors == {"", "Unable to open file", "No suitable reader found"}

\* Return codes of Exporter::Export.
aiReturnCodes == {"aiReturn_SUCCESS", "aiReturn_FAILURE", "aiReturn_OUTOFMEMORY"}

\* Arguments callers pass.
PathPtrs == {NULL, Ptr("model.obj")}
DataPtrs == {NULL, Ptr("buffer")}
Lengths == {0, 4}
HintPtrs == {NULL, Ptr("obj")}
FileIOPtrs == {NULL, Ptr("fileio")}
CallbackPtrs == {NULL, Ptr("callback")}
ScenePtrs == {NULL, Ptr("scene")}
FormatPtrs == {NULL, Ptr("obj")}

ApiDescriptors ==
    << aiRustProperty(Ptr("a"), aiRustPropertyKind_Integer, 7, "0.0", NULL, NULL),
       aiRustProperty(NULL, aiRustPropertyKind_Float, 0, "1.5", NULL, NULL),
       aiRustProperty(Ptr("b"), aiRustPropertyKind_Boolean, 2, "0.0", NULL, NULL) >>

\* (props, props_count) pairs: a null array with a non-zero count, and an array
\* holding a descriptor that is skipped between two that are applied.
ApiProps == { [props |-> NULL, count |-> 2],
              [props |-> Ptr(ApiDescriptors), count |-> 3] }

\* The values thread t draws an argument or an engine result from: all of S
\* for the single caller, the few named ones for the concurrent callers,
\* whose interleavings are enumerated.
ArgsOf(t, S, few) == IF t \in Concurrent THEN few ELSE S

FileIOArgs(t) == ArgsOf(t, FileIOPtrs, {NULL})
PropsArgs(t) == ArgsOf(t, ApiProps, {[props |-> NULL, count |-> 2]})
CallbackArgs(t) == ArgsOf(t, CallbackPtrs, {NULL})
LengthArgs(t) == ArgsOf(t, Lengths, {4})
HintArgs(t) == ArgsOf(t, HintPtrs, {NULL})
FormatArgs(t) == ArgsOf(t, FormatPtrs, {Ptr("obj")})
ExportPathArgs(t) == ArgsOf(t, PathPtrs, {Ptr("model.obj")})
EngineErrorsOf(t) == ArgsOf(t, EngineErrors, {"", "Unable to open file"})
aiReturnCodesOf(t) == ArgsOf(t, aiReturnCodes, {"aiReturn_SUCCESS", "aiReturn_FAILURE"})

NoCall ==
    [fn |-> "none", path |-> NULL, data |-> NULL, length |-> 0, hint |-> NULL,
     file_io |-> NULL, props |-> NULL, props_count |-> 0, progress_cb |-> NULL,
     scene |-> NULL, format_id |-> NULL]

\* Locals of import_with_bridge and of the export entry points.
NoFrame ==
    [path |-> NULL, mem |-> NULL, mem_len |-> 0, file_io |-> NULL,
     props |-> NULL, props_count |-> 0, progress_cb |-> NULL, hint |-> NULL,
     scene |-> NULL, r |-> "", blob |-> NULL, err |-> ""]

NoReturn == [fn |-> "none", ptr |-> NULL, code |-> ""]
Returned(fn, ptr, code) == [fn |-> fn, ptr |-> ptr, code |-> code]

NotAsked == [valid |-> FALSE, ptr |-> NULL]

\* The adapters a call frame constructs, std::make_unique<RustIOSystem> and
\* std::make_unique<BridgeProgressHandler>, each with the number of times
\* it has been released (deleted).
Constructed(io, ph) ==
    [io |-> [built |-> io, releases |-> 0],
     ph |-> [built |-> ph, releases |-> 0]]

NoAdapters == Constructed(FALSE, FALSE)

AnyBuilt(a) == a.io.built \/ a.ph.built

\* delete of every adapter of a that was constructed
Release(a) ==
    [io |-> [a.io EXCEPT !.releases = IF a.io.built THEN @ + 1 ELSE @],
     ph |-> [a.ph EXCEPT !.releases = IF a.ph.built THEN @ + 1 ELSE @]]

\* What ~Importer / ~Exporter does with the handlers that were registered
\* through SetIOHandler / SetProgressHandler belongs to the engine: it
\* forgets them, or it deletes them as their owner.
EngineDestructor == {"forgets", "deletes"}

\* The locals of the call frame go out of scope, in reverse order of their
\* declaration: the unique_ptrs release the adapters, then the importer or
\* exporter is destroyed.  When the engine deletes an adapter the frame has
\* already released, that second delete is undefined: the process crashes,
\* or the call returns all the same.  (With no adapter registered the
\* engine has nothing of the frame's to delete.)
ScopeExit(t) ==
    \E engine \in EngineDestructor, outcome \in {"returns", "crashes"} :
        LET framed == Release(adapters[t])
        IN /\ ~AnyBuilt(adapters[t]) => engine = "forgets"
           /\ outcome = "crashes" => engine = "deletes"
           /\ adapters' = [adapters EXCEPT ![t] =
                             IF engine = "deletes" THEN Release(framed)
                             ELSE framed]
           /\ pc' = [pc EXCEPT ![t] =
                       IF outcome = "crashes" THEN "crashed" ELSE "idle"]

\* Mutant of clear: the entry point leaves the slot as it finds it.
clear_Skipped(msg) == msg

\* std::string::clear() on the slot, first statement of every entry point.
clear(msg) == ""

\* const char* aiGetLastErrorStringRust(void)
aiGetLastErrorStringRust_value(msg) == IF msg = "" THEN NULL ELSE Ptr(msg)

\* A call begins: the caller has released what the previous call returned,
\* and the records of engine-layer activity start afresh.
BeginCall(t, c) ==
    /\ pc[t] = "idle"
    /\ call' = [call EXCEPT ![t] = c]
    /\ sink' = [sink EXCEPT ![t] = <<>>]
    /\ log' = [log EXCEPT ![t] = <<>>]
    /\ heap' = [heap EXCEPT ![t] = {}]
    /\ got' = [got EXCEPT ![t] = NotAsked]
    /\ slotAtEntry' = [slotAtEntry EXCEPT ![t] = g_last_error_msg[Slot(t)]]
    /\ engineError' = [engineError EXCEPT ![t] = NULL]
    /\ adapters' = [adapters EXCEPT ![t] = NoAdapters]
    /\ engineOps' = [engineOps EXCEPT ![t] = <<>>]

\* The entry point returns at once with a message written by the bridge.
FailEarly(t, fn, msg, code) ==
    /\ g_last_error_msg' = [g_last_error_msg EXCEPT ![Slot(t)] = msg]
    /\ ret' = [ret EXCEPT ![t] = Returned(fn, NULL, code)]
    /\ pc' = pc
    /\ bridge' = [bridge EXCEPT ![t] = NoFrame]

\* The entry point passes validation and goes on to wire the engine.
Proceed(t, frame) ==
    /\ g_last_error_msg' =
         [g_last_error_msg EXCEPT ![Slot(t)] = clear(g_last_error_msg[Slot(t)])]
    /\ bridge' = [bridge EXCEPT ![t] = frame]
    /\ pc' = [pc EXCEPT ![t] = "wire"]
    /\ ret' = ret

\* The validation of aiImportFileExWithProgressRust, wrapper.cpp 276-279:
\* the message of the check that fails, or the empty string when it passes.
ImportFileValidation(path) ==
    IF path = NULL THEN MsgPathNull ELSE ""

\* Mutant of ImportMemoryValidation: the length is not looked at.
ImportMemoryValidation_NoLength(data, length) ==
    IF data = NULL THEN MsgBufferEmpty ELSE ""

\* The validation of aiImportFileFromMemoryWithProgressRust, wrapper.cpp 294-297.
ImportMemoryValidation(data, length) ==
    IF data = NULL \/ length = 0 THEN MsgBufferEmpty ELSE ""

\* wrapper.cpp 266-281, up to the call of import_with_bridge
aiImportFileExWithProgressRust(t) ==
    \E path \in PathPtrs, file_io \in FileIOArgs(t), pa \in PropsArgs(t),
       progress_cb \in CallbackArgs(t) :
        /\ BeginCall(t, [NoCall EXCEPT !.fn = "ImportFile", !.path = path,
                            !.file_io = file_io, !.props = pa.props,
                            !.props_count = pa.count,
                            !.progress_cb = progress_cb])
        /\ IF ImportFileValidation(path) # ""
           THEN FailEarly(t, "ImportFile", ImportFileValidation(path), "")
           ELSE Proceed(t, [NoFrame EXCEPT !.path = path, !.file_io = file_io,
                               !.props = pa.props, !.props_count = pa.count,
                               !.progress_cb = progress_cb])
        /\ UNCHANGED <<noExport, ioVars, mVars, phVars>>

\* wrapper.cpp 283-299, up to the call of import_with_bridge
aiImportFileFromMemoryWithProgressRust(t) ==
    \E data \in DataPtrs, length \in LengthArgs(t),
       hint \in HintArgs(t),
       pa \in PropsArgs(t), progress_cb \in CallbackArgs(t) :
        /\ BeginCall(t, [NoCall EXCEPT !.fn = "ImportFromMemory", !.data = data,
                            !.length = length, !.hint = hint,
                            !.props = pa.props, !.props_count = pa.count,
                            !.progress_cb = progress_cb])
        /\ IF ImportMemoryValidation(data, length) # ""
           THEN FailEarly(t, "ImportFromMemory",
                          ImportMemoryValidation(data, length), "")
           ELSE Proceed(t, [NoFrame EXCEPT !.mem = data, !.mem_len = length,
                               !.props = pa.props, !.props_count = pa.count,
                               !.progress_cb = progress_cb, !.hint = hint])
        /\ UNCHANGED <<noExport, ioVars, mVars, phVars>>

IsImport(t) == call[t].fn \in {"ImportFile", "ImportFromMemory"}

\* import_with_bridge, wrapper.cpp 220-237: the importer is constructed, the
\* adapters are built and attached, the properties are applied.
import_with_bridge_Wire(t) ==
    /\ pc[t] = "wire"
    /\ IsImport(t)
    /\ log' = [log EXCEPT ![t] =
                 <<"Importer">>
                 \o (IF bridge[t].file_io # NULL
                     THEN <<"RustIOSystem", "SetIOHandler">> ELSE <<>>)
                 \o (IF bridge[t].progress_cb # NULL
                     THEN <<"BridgeProgressHandler", "SetProgressHandler">>
                     ELSE <<>>)
                 \o <<"apply_properties">>]
    /\ sink' = [sink EXCEPT ![t] =
                  apply_properties(<<>>, bridge[t].props, bridge[t].props_count)]
    /\ adapters' = [adapters EXCEPT ![t] = Constructed(bridge[t].file_io # NULL,
                                                bridge[t].progress_cb # NULL)]
    /\ pc' = [pc EXCEPT ![t] = "execute"]
    /\ UNCHANGED <<noExport, engineOps, ioVars, mVars, phVars, g_last_error_msg, call, bridge,
                   heap, ret, got, slotAtEntry, engineError>>

\* What the engine may do with the attached adapters while it works: use the
\* I/O table or not, report progress or not.
EngineCallbacks(file_io, progress_cb) ==
    { io \o pr : io \in (IF file_io # NULL THEN {<<>>, <<"aiFileIO">>} ELSE {<<>>}),
                 pr \in (IF progress_cb # NULL THEN {<<>>, <<"progress_cb">>}
                         ELSE {<<>>}) }

\* One engine operation: ReadFile(path, ...), ReadFileFromMemory(..., hint),
\* Export(..., path, ...) or ExportToBlob(...), with its path or hint.
EngineOp(op, arg) == [op |-> op, arg |-> arg]

\* Mutant of HintOrEmpty: the hint is dropped.
HintOrEmpty_Dropped(hint) == ""

\* hint ? hint : "", wrapper.cpp 243
HintOrEmpty(hint) == IF hint # NULL THEN Deref(hint) ELSE ""

\* import_with_bridge, wrapper.cpp 239-244: the engine reads.  The scene it
\* returns is owned by the importer.
import_with_bridge_Execute(t) ==
    /\ pc[t] = "execute"
    /\ IsImport(t)
    /\ \E scene \in {NULL, Ptr("importer_scene")}, err \in EngineErrorsOf(t),
          cbs \in EngineCallbacks(bridge[t].file_io, bridge[t].progress_cb) :
        /\ scene # NULL => err = ""
        /\ IF bridge[t].path # NULL
           THEN /\ log' = [log EXCEPT ![t] = @ \o <<"ReadFile">> \o cbs]
                /\ engineOps' = [engineOps EXCEPT ![t] =
                                   Append(@, EngineOp("ReadFile",
                                                      Deref(bridge[t].path)))]
           ELSE IF bridge[t].mem # NULL
           THEN /\ log' = [log EXCEPT ![t] = @ \o <<"ReadFileFromMemory">> \o cbs]
                /\ engineOps' = [engineOps EXCEPT ![t] =
                                   Append(@, EngineOp("ReadFileFromMemory",
                                                      HintOrEmpty(bridge[t].hint)))]
           ELSE /\ scene = NULL /\ err = "" /\ cbs = <<>>
                /\ log' = log
                /\ engineOps' = engineOps
        /\ bridge' = [bridge EXCEPT ![t].scene = scene, ![t].err = err]
        /\ engineError' = [engineError EXCEPT ![t] =
                             IF scene = NULL THEN Ptr(err) ELSE NULL]
        /\ heap' = [heap EXCEPT ![t] =
                      IF scene # NULL THEN {Deref(scene)} ELSE {}]
    /\ pc' = [pc EXCEPT ![t] = "finalize"]
    /\ UNCHANGED <<noExport, adapters, ioVars, mVars, phVars, g_last_error_msg, call, sink, ret,
                   got, slotAtEntry>>

\* The importer goes out of scope: the scene it owns is destroyed with it.
DestroyImporter(h) == h \ {"importer_scene"}

\* Mutant of import_with_bridge_result: the importer's own scene is returned.
import_with_bridge_result_NoDetach(scene, out) == scene

\* What import_with_bridge returns once the copy has succeeded (line 258).
import_with_bridge_result(scene, out) == out

\* import_with_bridge, wrapper.cpp 246-259, and the return of the entry point.
import_with_bridge_Finalize(t) ==
    /\ pc[t] = "finalize"
    /\ IsImport(t)
    /\ IF bridge[t].scene = NULL
       THEN /\ g_last_error_msg' =
                 [g_last_error_msg EXCEPT ![Slot(t)] = bridge[t].err]
            /\ ret' = [ret EXCEPT ![t] = Returned(call[t].fn, NULL, "")]
            /\ heap' = [heap EXCEPT ![t] = DestroyImporter(@)]
            /\ log' = [log EXCEPT ![t] = @ \o <<"~Importer">>]
       ELSE \E out \in {NULL, Ptr("scene_copy")} :
            /\ log' = [log EXCEPT ![t] = @ \o <<"aiCopyScene", "~Importer">>]
            /\ heap' = [heap EXCEPT ![t] =
                          DestroyImporter(IF out # NULL
                                          THEN @ \cup {Deref(out)} ELSE @)]
            /\ IF out = NULL
               THEN /\ g_last_error_msg' =
                         [g_last_error_msg EXCEPT ![Slot(t)] = MsgCopyNull]
                    /\ ret' = [ret EXCEPT ![t] = Returned(call[t].fn, NULL, "")]
               ELSE /\ g_last_error_msg' = g_last_error_msg
                    /\ ret' = [ret EXCEPT ![t] =
                                 Returned(call[t].fn,
                                          import_with_bridge_result(bridge[t].scene, out),
                                          "")]
    /\ ScopeExit(t)
    /\ bridge' = [bridge EXCEPT ![t] = NoFrame]
    /\ UNCHANGED <<noExport, engineOps, ioVars, mVars, phVars, call, sink, got, slotAtEntry,
                   engineError>>

\* Mutant of ExportFileValidation: format and path are checked before the scene.
ExportFileValidation_FormatFirst(scene, format_id, path) ==
    IF format_id = NULL \/ path = NULL THEN MsgFormatOrPathNull
    ELSE IF scene = NULL THEN MsgSceneNull
    ELSE ""

\* The validation of aiExportSceneExWithPropertiesRust, wrapper.cpp 323-330:
\* the message of the check that fails, or the empty string when all pass.
ExportFileValidation(scene, format_id, path) ==
    IF scene = NULL THEN MsgSceneNull
    ELSE IF format_id = NULL \/ path = NULL THEN MsgFormatOrPathNull
    ELSE ""

\* The validation of aiExportSceneToBlobWithPropertiesRust, wrapper.cpp 369-376.
ExportBlobValidation(scene, format_id) ==
    IF scene = NULL THEN MsgSceneNull
    ELSE IF format_id = NULL THEN MsgFormatNull
    ELSE ""

\* wrapper.cpp 301-330
aiExportSceneExWithPropertiesRust(t) ==
    \E scene \in ScenePtrs, format_id \in FormatArgs(t),
       path \in ExportPathArgs(t),
       file_io \in FileIOArgs(t), pa \in PropsArgs(t) :
        /\ BeginCall(t, [NoCall EXCEPT !.fn = "ExportToFile", !.scene = scene,
                            !.format_id = format_id, !.path = path,
                            !.file_io = file_io, !.props = pa.props,
                            !.props_count = pa.count])
        /\ IF noExport
           THEN FailEarly(t, "ExportToFile", MsgNoExport, "aiReturn_FAILURE")
           ELSE IF ExportFileValidation(scene, format_id, path) # ""
           THEN FailEarly(t, "ExportToFile",
                          ExportFileValidation(scene, format_id, path),
                          "aiReturn_FAILURE")
           ELSE Proceed(t, [NoFrame EXCEPT !.path = path, !.file_io = file_io,
                               !.props = pa.props, !.props_count = pa.count])
        /\ UNCHANGED <<noExport, ioVars, mVars, phVars>>

\* Mutant of aiExportSceneToBlobWithPropertiesRust: the build configuration
\* is not consulted.
aiExportSceneToBlobWithPropertiesRust_AlwaysBuilt(t) ==
    \E scene \in ScenePtrs, format_id \in FormatArgs(t), pa \in PropsArgs(t) :
        /\ BeginCall(t, [NoCall EXCEPT !.fn = "ExportToBlob", !.scene = scene,
                            !.format_id = format_id, !.props = pa.props,
                            !.props_count = pa.count])
        /\ IF ExportBlobValidation(scene, format_id) # ""
           THEN FailEarly(t, "ExportToBlob",
                          ExportBlobValidation(scene, format_id), "")
           ELSE Proceed(t, [NoFrame EXCEPT !.props = pa.props,
                               !.props_count = pa.count])
        /\ UNCHANGED <<noExport, ioVars, mVars, phVars>>

\* wrapper.cpp 351-376
aiExportSceneToBlobWithPropertiesRust(t) ==
    \E scene \in ScenePtrs, format_id \in FormatArgs(t), pa \in PropsArgs(t) :
        /\ BeginCall(t, [NoCall EXCEPT !.fn = "ExportToBlob", !.scene = scene,
                            !.format_id = format_id, !.props = pa.props,
                            !.props_count = pa.count])
        /\ IF noExport
           THEN FailEarly(t, "ExportToBlob", MsgNoExport, "")
           ELSE IF ExportBlobValidation(scene, format_id) # ""
           THEN FailEarly(t, "ExportToBlob",
                          ExportBlobValidation(scene, format_id), "")
           ELSE Proceed(t, [NoFrame EXCEPT !.props = pa.props,
                               !.props_count = pa.count])
        /\ UNCHANGED <<noExport, ioVars, mVars, phVars>>

IsExport(t) == call[t].fn \in {"ExportToFile", "ExportToBlob"}

\* wrapper.cpp 332-341 and 378-381: exporter and property bag are constructed,
\* the I/O adapter is attached (export to file only), properties are applied.
Export_Wire(t) ==
    /\ pc[t] = "wire"
    /\ IsExport(t)
    /\ log' = [log EXCEPT ![t] =
                 <<"Exporter", "ExportProperties">>
                 \o (IF call[t].fn = "ExportToFile" /\ bridge[t].file_io # NULL
                     THEN <<"RustIOSystem", "SetIOHandler">> ELSE <<>>)
                 \o <<"apply_export_properties">>]
    /\ sink' = [sink EXCEPT ![t] =
                  apply_export_properties(<<>>, bridge[t].props,
                                          bridge[t].props_count)]
    /\ adapters' = [adapters EXCEPT ![t] = Constructed(call[t].fn = "ExportToFile"
                                                  /\ bridge[t].file_io # NULL,
                                                FALSE)]
    /\ pc' = [pc EXCEPT ![t] = "execute"]
    /\ UNCHANGED <<noExport, engineOps, ioVars, mVars, phVars, g_last_error_msg, call, bridge,
                   heap, ret, got, slotAtEntry, engineError>>

\* wrapper.cpp 343: Exporter::Export
ExportFile_Execute(t) ==
    /\ pc[t] = "execute"
    /\ call[t].fn = "ExportToFile"
    /\ \E r \in aiReturnCodesOf(t), err \in EngineErrorsOf(t),
          cbs \in EngineCallbacks(bridge[t].file_io, NULL) :
        /\ r = "aiReturn_SUCCESS" => err = ""
        /\ log' = [log EXCEPT ![t] = @ \o <<"Export">> \o cbs]
        /\ engineOps' = [engineOps EXCEPT ![t] =
                           Append(@, EngineOp("Export", Deref(bridge[t].path)))]
        /\ bridge' = [bridge EXCEPT ![t].r = r, ![t].err = err]
        /\ engineError' = [engineError EXCEPT ![t] =
                             IF r # "aiReturn_SUCCESS" THEN Ptr(err) ELSE NULL]
    /\ pc' = [pc EXCEPT ![t] = "finalize"]
    /\ UNCHANGED <<noExport, adapters, ioVars, mVars, phVars, g_last_error_msg, call, sink, heap,
                   ret, got, slotAtEntry>>

\* wrapper.cpp 344-347
ExportFile_Finalize(t) ==
    /\ pc[t] = "finalize"
    /\ call[t].fn = "ExportToFile"
    /\ g_last_error_msg' =
         [g_last_error_msg EXCEPT ![Slot(t)] =
            IF bridge[t].r # "aiReturn_SUCCESS" THEN bridge[t].err ELSE @]
    /\ ret' = [ret EXCEPT ![t] = Returned("ExportToFile", NULL, bridge[t].r)]
    /\ log' = [log EXCEPT ![t] = @ \o <<"~Exporter">>]
    /\ ScopeExit(t)
    /\ bridge' = [bridge EXCEPT ![t] = NoFrame]
    /\ UNCHANGED <<noExport, engineOps, ioVars, mVars, phVars, call, sink, heap, got, slotAtEntry,
                   engineError>>

\* wrapper.cpp 383: Exporter::ExportToBlob
ExportBlob_Execute(t) ==
    /\ pc[t] = "execute"
    /\ call[t].fn = "ExportToBlob"
    /\ \E blob \in {NULL, Ptr("blob")}, err \in EngineErrorsOf(t) :
        /\ blob # NULL => err = ""
        /\ log' = [log EXCEPT ![t] = @ \o <<"ExportToBlob">>]
        /\ engineOps' = [engineOps EXCEPT ![t] =
                           Append(@, EngineOp("ExportToBlob", ""))]
        /\ bridge' = [bridge EXCEPT ![t].blob = blob, ![t].err = err]
        /\ engineError' = [engineError EXCEPT ![t] =
                             IF blob = NULL THEN Ptr(err) ELSE NULL]
    /\ pc' = [pc EXCEPT ![t] = "finalize"]
    /\ UNCHANGED <<noExport, adapters, ioVars, mVars, phVars, g_last_error_msg, call, sink, heap,
                   ret, got, slotAtEntry>>

\* wrapper.cpp 384-390: on success the blob is detached from the exporter
\* (GetOrphanedBlob hands over the blob ExportToBlob produced).
ExportBlob_Finalize(t) ==
    /\ pc[t] = "finalize"
    /\ call[t].fn = "ExportToBlob"
    /\ IF bridge[t].blob = NULL
       THEN /\ g_last_error_msg' =
                 [g_last_error_msg EXCEPT ![Slot(t)] = bridge[t].err]
            /\ ret' = [ret EXCEPT ![t] = Returned("ExportToBlob", NULL, "")]
            /\ log' = [log EXCEPT ![t] = @ \o <<"~Exporter">>]
       ELSE /\ g_last_error_msg' = g_last_error_msg
            /\ ret' = [ret EXCEPT ![t] =
                         Returned("ExportToBlob", bridge[t].blob, "")]
            /\ log' = [log EXCEPT ![t] = @ \o <<"GetOrphanedBlob", "~Exporter">>]
    /\ ScopeExit(t)
    /\ bridge' = [bridge EXCEPT ![t] = NoFrame]
    /\ UNCHANGED <<noExport, engineOps, ioVars, mVars, phVars, call, sink, heap, got, slotAtEntry,
                   engineError>>

\* Mutant of aiGetLastErrorStringRust: the message is handed out and the
\* slot is emptied.
aiGetLastErrorStringRust_Consuming(t) ==
    /\ pc[t] = "idle"
    /\ got' = [got EXCEPT ![t] =
                 [valid |-> TRUE,
                  ptr |-> aiGetLastErrorStringRust_value(g_last_error_msg[Slot(t)])]]
    /\ g_last_error_msg' = [g_last_error_msg EXCEPT ![Slot(t)] = ""]
    /\ UNCHANGED <<noExport, adapters, engineOps, ioVars, mVars, phVars, pc, call,
                   bridge,
                   sink, log, heap, ret, slotAtEntry, engineError>>

\* wrapper.cpp 393-395, called between two import/export calls of the thread
aiGetLastErrorStringRust(t) ==
    /\ pc[t] = "idle"
    /\ got' = [got EXCEPT ![t] =
                 [valid |-> TRUE,
                  ptr |-> aiGetLastErrorStringRust_value(g_last_error_msg[Slot(t)])]]
    /\ UNCHANGED <<noExport, adapters, engineOps, ioVars, mVars, phVars, g_last_error_msg, pc,
                   call, bridge,
                   sink, log, heap, ret, slotAtEntry, engineError>>

ApiInit(builds) ==
    /\ noExport \in builds
    /\ g_last_error_msg = [t \in Threads |-> ""]
    /\ pc = [t \in Threads |-> "idle"]
    /\ call = [t \in Threads |-> NoCall]
    /\ bridge = [t \in Threads |-> NoFrame]
    /\ sink = [t \in Threads |-> <<>>]
    /\ log = [t \in Threads |-> <<>>]
    /\ heap = [t \in Threads |-> {}]
    /\ ret = [t \in Threads |-> NoReturn]
    /\ got = [t \in Threads |-> NotAsked]
    /\ slotAtEntry = [t \in Threads |-> ""]
    /\ engineError = [t \in Threads |-> NULL]
    /\ adapters = [t \in Threads |-> NoAdapters]
    /\ engineOps = [t \in Threads |-> <<>>]

\* One step of thread t through the bridge's public surface.
ApiStep(t) ==
    \/ aiImportFileExWithProgressRust(t)
    \/ aiImportFileFromMemoryWithProgressRust(t)
    \/ import_with_bridge_Wire(t)
    \/ import_with_bridge_Execute(t)
    \/ import_with_bridge_Finalize(t)
    \/ aiExportSceneExWithPropertiesRust(t)
    \/ aiExportSceneToBlobWithPropertiesRust(t)
    \/ Export_Wire(t)
    \/ ExportFile_Execute(t)
    \/ ExportFile_Finalize(t)
    \/ ExportBlob_Execute(t)
    \/ ExportBlob_Finalize(t)
    \/ aiGetLastErrorStringRust(t)

---------------------------------------------------------------------------
(* I/O adapter, wrapper.cpp 66-146.  An aiFile handle is its index in      *)
(* files, a RustIOStream pointer is its index in streams; 0 is nullptr.    *)

MaxFiles == 2        \* handles the table's OpenProc hands out in one run
MaxCloseCalls == 2   \* times the engine passes one stream pointer to Close

\* One invocation of a function pointer of the table, with the aiFile it
\* returned (OpenProc) or was given (CloseProc).
TableOp(proc, file) == [proc |-> proc, file |-> file]

\* A RustIOSystem call: its argument and result, and the table operations it
\* invoked, in order.
IoCall(op, arg, ok, stream, tableOps) ==
    [op |-> op, arg |-> arg, ok |-> ok, stream |-> stream,
     tableOps |-> tableOps, crashed |-> FALSE]

NoIo == IoCall("none", 0, FALSE, 0, <<>>)

NewFile == [closes |-> 0]

\* RustIOStream(fio, file): m_handle, plus what the model records about the
\* object: the handle it was built with, how often Close was called with it,
\* how often it was deleted, whether it was used after its release.
RustIOStream(file) ==
    [m_handle |-> file, file |-> file, closeCalls |-> 0, deletes |-> 0,
     usedAfterRelease |-> FALSE]

\* m_fileio->OpenProc(...): the caller's function returns null or a new aiFile.
OpenProcResults ==
    {0} \cup (IF Len(files) < MaxFiles THEN {Len(files) + 1} ELSE {})

\* m_fileio->CloseProc(m_fileio, f)
CloseProcCall(fs, f) == [fs EXCEPT ![f].closes = @ + 1]

\* Mutant of ExistsUsable: CloseProc is not looked at, as in Open.
ExistsUsable_NoCloseCheck(fio) == fio.table /\ fio.OpenProc

\* Guard of Exists, wrapper.cpp 115
ExistsUsable(fio) == fio.table /\ fio.OpenProc /\ fio.CloseProc

\* Guard of Open, wrapper.cpp 131
OpenUsable(fio) == fio.table /\ fio.OpenProc

\* Condition of Close, wrapper.cpp 140, for a RustIOStream whose m_handle reads h
CloseInvokesTable(fio, h) == fio.table /\ fio.CloseProc /\ h # 0

\* bool RustIOSystem::Exists(const char* pFile) const
RustIOSystem_Exists ==
    /\ ~ioLast.crashed
    /\ IF ~ExistsUsable(m_fileio)
       THEN /\ ioLast' = IoCall("Exists", 0, FALSE, 0, <<>>)
            /\ UNCHANGED <<files, streams>>
       ELSE \E f \in OpenProcResults :
              IF f = 0
              THEN /\ ioLast' = IoCall("Exists", 0, FALSE, 0,
                                       <<TableOp("OpenProc", 0)>>)
                   /\ UNCHANGED <<files, streams>>
              ELSE /\ files' = CloseProcCall(Append(files, NewFile), f)
                   /\ ioLast' = IoCall("Exists", 0, TRUE, 0,
                                       <<TableOp("OpenProc", f),
                                         TableOp("CloseProc", f)>>)
                   /\ UNCHANGED streams
    /\ UNCHANGED <<m_fileio, apiVars, mVars, phVars>>

\* Assimp::IOStream* RustIOSystem::Open(const char* pFile, const char* pMode)
RustIOSystem_Open ==
    /\ ~ioLast.crashed
    /\ IF ~OpenUsable(m_fileio)
       THEN /\ ioLast' = IoCall("Open", 0, FALSE, 0, <<>>)
            /\ UNCHANGED <<files, streams>>
       ELSE \E f \in OpenProcResults :
              IF f = 0
              THEN /\ ioLast' = IoCall("Open", 0, FALSE, 0,
                                       <<TableOp("OpenProc", 0)>>)
                   /\ UNCHANGED <<files, streams>>
              ELSE /\ files' = Append(files, NewFile)
                   /\ streams' = Append(streams, RustIOStream(f))
                   /\ ioLast' = IoCall("Open", 0, TRUE, Len(streams) + 1,
                                       <<TableOp("OpenProc", f)>>)
    /\ UNCHANGED <<m_fileio, apiVars, mVars, phVars>>

\* void RustIOSystem::Close(Assimp::IOStream* pFile).  When pFile points at
\* an object that was already deleted, the dynamic_cast, the read of
\* m_handle and the second delete are undefined: the call may crash, or go
\* on with whatever m_handle reads as.
RustIOSystem_Close(pFile) ==
    /\ ~ioLast.crashed
    /\ IF pFile = 0
       THEN /\ ioLast' = IoCall("Close", 0, TRUE, 0, <<>>)
            /\ UNCHANGED <<files, streams>>
       ELSE
         /\ streams[pFile].closeCalls < MaxCloseCalls
         /\ IF streams[pFile].deletes = 0
            THEN LET h == streams[pFile].m_handle
                     toTable == CloseInvokesTable(m_fileio, h)
                 IN /\ files' = IF toTable THEN CloseProcCall(files, h) ELSE files
                    /\ streams' =
                         [streams EXCEPT ![pFile].m_handle = IF toTable THEN 0 ELSE h,
                                         ![pFile].closeCalls = @ + 1,
                                         ![pFile].deletes = @ + 1]
                    /\ ioLast' = IoCall("Close", pFile, TRUE, 0,
                                        IF toTable THEN <<TableOp("CloseProc", h)>>
                                        ELSE <<>>)
            ELSE \/ /\ ioLast' = [IoCall("Close", pFile, FALSE, 0, <<>>)
                                   EXCEPT !.crashed = TRUE]
                    /\ streams' =
                         [streams EXCEPT ![pFile].closeCalls = @ + 1,
                                         ![pFile].usedAfterRelease = TRUE]
                    /\ UNCHANGED files
                 \/ \E h \in 0 .. Len(files) :
                      LET toTable == CloseInvokesTable(m_fileio, h)
                      IN /\ files' = IF toTable THEN CloseProcCall(files, h)
                                     ELSE files
                         /\ streams' =
                              [streams EXCEPT ![pFile].closeCalls = @ + 1,
                                              ![pFile].deletes = @ + 1,
                                              ![pFile].usedAfterRelease = TRUE]
                         /\ ioLast' = IoCall("Close", pFile, TRUE, 0,
                                             IF toTable
                                             THEN <<TableOp("CloseProc", h)>>
                                             ELSE <<>>)
    /\ UNCHANGED <<m_fileio, apiVars, mVars, phVars>>

\* RustIOSystem(fio): the constructor stores whatever pointer it is given.
\* A table that is present has each of OpenProc and CloseProc set or null.
FileIOTables ==
    { [table |-> FALSE, OpenProc |-> FALSE, CloseProc |-> FALSE] }
    \cup { [table |-> TRUE, OpenProc |-> o, CloseProc |-> c] :
             o \in BOOLEAN, c \in BOOLEAN }

IoInit ==
    /\ m_fileio \in FileIOTables
    /\ files = <<>>
    /\ streams = <<>>
    /\ ioLast = NoIo

IoIdle ==
    /\ m_fileio = [table |-> FALSE, OpenProc |-> FALSE, CloseProc |-> FALSE]
    /\ files = <<>>
    /\ streams = <<>>
    /\ ioLast = NoIo

---------------------------------------------------------------------------
(* The marshallers run on every descriptor array up to MaxProps entries.   *)

MaxProps == 2

NamePtrs == {NULL, Ptr("a")}
\* The five kinds of the enum and one value that is none of them.
Kinds == aiRustPropertyKind_Integer .. aiRustPropertyKind_Boolean + 1
FloatValues == {"1.5"}
\* Payload fields (int_value, string_value, matrix_value): the integer is
\* zero or not, each pointer is null or not, alone and together.
Payloads ==
    { <<0, NULL, NULL>>, <<2, NULL, NULL>>, <<0, Ptr("s"), NULL>>,
      <<0, NULL, Ptr("M")>>, <<0, Ptr("s"), Ptr("M")>>,
      <<2, Ptr("s"), Ptr("M")>> }

Descriptors ==
    { aiRustProperty(n, k, pl[1], f, pl[2], pl[3]) :
        n \in NamePtrs, k \in Kinds, f \in FloatValues, pl \in Payloads }

DescriptorArrays == UNION { [1 .. n -> Descriptors] : n \in 0 .. MaxProps }

MInit ==
    /\ mProps \in {NULL} \cup { Ptr(a) : a \in DescriptorArrays }
    /\ mCount \in IF mProps = NULL THEN 0 .. MaxProps ELSE {Len(Deref(mProps))}
    /\ mDone = "none"
    /\ mSink = <<>>
    /\ mExportSink = <<>>

MIdle ==
    /\ mProps = NULL
    /\ mCount = 0
    /\ mDone = "none"
    /\ mSink = <<>>
    /\ mExportSink = <<>>

\* apply_properties(importer, props, count) on a fresh Importer
MarshalImport ==
    /\ mDone \in {"none", "export"}
    /\ mSink' = apply_properties(<<>>, mProps, mCount)
    /\ mDone' = IF mDone = "none" THEN "import" ELSE "both"
    /\ UNCHANGED <<mProps, mCount, mExportSink, apiVars, ioVars, phVars>>

\* apply_export_properties(export_props, props, count) on fresh ExportProperties
MarshalExport ==
    /\ mDone \in {"none", "import"}
    /\ mExportSink' = apply_export_properties(<<>>, mProps, mCount)
    /\ mDone' = IF mDone = "none" THEN "export" ELSE "both"
    /\ UNCHANGED <<mProps, mCount, mSink, apiVars, ioVars, phVars>>

---------------------------------------------------------------------------
(* Progress adapter, wrapper.cpp 30-64.                                    *)
(*                                                                         *)
(* A float is an IEEE-754 binary32 value.  The finite ones are the dyadic  *)
(* rationals m * 2^e with at most FLT_MANT_DIG significant bits; <<m, e>>  *)
(* with m odd, or <<0, 0>>, stands for m * 2^e.  Every operation rounds    *)
(* its exact result to the nearest float, ties to the even mantissa.      *)
(* Step counts are not negative, so the phased fractions are not either.   *)

FLT_MANT_DIG == 24

RECURSIVE Pow2(_)
Pow2(k) == IF k = 0 THEN 1 ELSE 2 * Pow2(k - 1)

\* Number of significant bits of x >= 0.
RECURSIVE BitLen(_)
BitLen(x) == IF x = 0 THEN 0 ELSE 1 + BitLen(x \div 2)

\* The canonical pair of m * 2^e.
RECURSIVE Float(_, _)
Float(m, e) ==
    IF m = 0 THEN <<0, 0>>
    ELSE IF m % 2 = 0 THEN Float(m \div 2, e + 1)
    ELSE <<m, e>>

\* Round-to-nearest-even of (M + d) * 2^e to a float, where M >= 0 and d is
\* 0, or some value strictly between 0 and 1 when sticky holds.  A sticky
\* operand carries more than FLT_MANT_DIG bits in M.
RoundToFloat(M, sticky, e) ==
    LET k == BitLen(M) - FLT_MANT_DIG
    IN IF k <= 0 THEN Float(M, e)
       ELSE LET q == M \div Pow2(k)
                r == M % Pow2(k)
                h == Pow2(k - 1)
                up == r > h \/ (r = h /\ (sticky \/ q % 2 = 1))
            IN Float(IF up THEN q + 1 ELSE q, e + k)

\* (float)i for an int i >= 0
IntToFloat(i) == RoundToFloat(i, FALSE, 0)

\* Binary long division of r / d, continued until the quotient q holds
\* FLT_MANT_DIG + 2 bits or the remainder is zero; s counts the bits produced
\* after the binary point.
RECURSIVE LongDivision(_, _, _, _)
LongDivision(q, r, d, s) ==
    IF r = 0 \/ q >= Pow2(FLT_MANT_DIG + 1) THEN <<q, r, s>>
    ELSE LongDivision(2 * q + (IF 2 * r >= d THEN 1 ELSE 0), (2 * r) % d, d, s + 1)

\* a / b in float arithmetic, for a >= 0 and b > 0
FDiv(a, b) ==
    LET qrs == LongDivision(a[1] \div b[1], a[1] % b[1], b[1], 0)
    IN RoundToFloat(qrs[1], qrs[2] # 0, a[2] - b[2] - qrs[3])

\* a * 0.5f: exact, the exponent drops by one
FMulHalf(a) == IF a[1] = 0 THEN a ELSE <<a[1], a[2] - 1>>

\* a + b in float arithmetic, for a >= 0 and b >= 0.  The operand with the
\* larger exponent is widened to FLT_MANT_DIG + 2 bits; what the other one
\* holds below that is kept as the sticky bit.
FAdd(a, b) ==
    IF a[1] = 0 THEN b
    ELSE IF b[1] = 0 THEN a
    ELSE LET hi == IF a[2] >= b[2] THEN a ELSE b
             lo == IF a[2] >= b[2] THEN b ELSE a
             g == hi[2] - lo[2]
             G == FLT_MANT_DIG + 2 - BitLen(hi[1])
         IN IF g <= G
            THEN RoundToFloat(hi[1] * Pow2(g) + lo[1], FALSE, lo[2])
            ELSE RoundToFloat(hi[1] * Pow2(G)
                                + (IF g - G >= FLT_MANT_DIG THEN 0
                                   ELSE lo[1] \div Pow2(g - G)),
                              TRUE, hi[2] - G)

\* a <= b for floats a >= 0 and b >= 0
FLeq(a, b) ==
    LET d == a[2] - b[2]
    IN IF d >= 0
       THEN a[1] <= (IF d >= 31 THEN 0 ELSE b[1] \div Pow2(d))
       ELSE ~(b[1] <= (IF -d >= 31 THEN 0 ELSE (a[1] - 1) \div Pow2(-d)))

F_0_0 == Float(0, 0)     \* 0.0f
F_0_5 == Float(1, -1)    \* 0.5f
F_1_0 == Float(1, 0)     \* 1.0f
F_minus1 == Float(-1, 0) \* -1.f, the default argument of Update

\* std::snprintf(buf, size, "<phase> %d/%d", currentStep, numberOfSteps): the
\* formatted text, cut to size - 1 characters.
snprintf(size, phase, currentStep, numberOfSteps) ==
    LET s == phase \o " " \o ToString(currentStep) \o "/" \o ToString(numberOfSteps)
    IN IF Len(s) < size THEN s ELSE SubSeq(s, 1, size - 1)

\* sizeof(buf)
BufSize == 64

\* One invocation of the caller's callback: cb(percentage, message, user).
CbCall(percentage, message, user) ==
    [percentage |-> percentage, message |-> message, user |-> user]

\* What one notification did: the callback invocations it made, what the
\* callback returned to it, the divisors of the float divisions it
\* performed, and what it returned to the engine ("void" for the phased
\* notifications).
Notified(op, currentStep, numberOfSteps, percentage, calls, cbRets, divisors, result) ==
    [op |-> op, currentStep |-> currentStep, numberOfSteps |-> numberOfSteps,
     percentage |-> percentage, calls |-> calls, cbRets |-> cbRets,
     divisors |-> divisors, result |-> result]

NotNotified == Notified("none", 0, 0, F_0_0, <<>>, <<>>, <<>>, "void")

BoolResult(b) == IF b THEN "true" ELSE "false"

\* The conditional expression of lines 53 and 61: the quotient when
\* numberOfSteps is non-zero, the substitute otherwise, with the divisor of
\* the division that was performed.
StepRatio(currentStep, numberOfSteps, substitute) ==
    IF numberOfSteps # 0
    THEN [f |-> FDiv(IntToFloat(currentStep), IntToFloat(numberOfSteps)),
          divisors |-> <<IntToFloat(numberOfSteps)>>]
    ELSE [f |-> substitute, divisors |-> <<>>]

\* Argument of the callback in UpdateFileRead, line 46
UpdateFileRead_fraction(currentStep, numberOfSteps) ==
    IF numberOfSteps # 0
    THEN [f |-> FMulHalf(FDiv(IntToFloat(currentStep), IntToFloat(numberOfSteps))),
          divisors |-> <<IntToFloat(numberOfSteps)>>]
    ELSE [f |-> F_0_0, divisors |-> <<>>]

\* Mutant of UpdatePostProcess_fraction: the substitute is 0, as in
\* UpdateFileRead.
UpdatePostProcess_fraction_ZeroSubstitute(currentStep, numberOfSteps) ==
    LET ratio == StepRatio(currentStep, numberOfSteps, F_0_0)
    IN [f |-> FAdd(FMulHalf(ratio.f), F_0_5), divisors |-> ratio.divisors]

\* Argument of the callback in UpdatePostProcess, lines 53-54
UpdatePostProcess_fraction(currentStep, numberOfSteps) ==
    LET ratio == StepRatio(currentStep, numberOfSteps, F_1_0)
    IN [f |-> FAdd(FMulHalf(ratio.f), F_0_5), divisors |-> ratio.divisors]

\* Mutant of UpdateFileWrite_fraction: the quotient is not halved.
UpdateFileWrite_fraction_Unscaled(currentStep, numberOfSteps) ==
    LET ratio == StepRatio(currentStep, numberOfSteps, F_1_0)
    IN [f |-> ratio.f, divisors |-> ratio.divisors]

\* Argument of the callback in UpdateFileWrite, lines 61-62
UpdateFileWrite_fraction(currentStep, numberOfSteps) ==
    LET ratio == StepRatio(currentStep, numberOfSteps, F_1_0)
    IN [f |-> FMulHalf(ratio.f), divisors |-> ratio.divisors]

\* Step counts the engine reports: small ones, the ones around
\* 2^FLT_MANT_DIG, where an int stops being exactly representable, and the
\* ones just below 2^(FLT_MANT_DIG - 1).
MaxSmallStep == 3
Steps ==
    (0 .. MaxSmallStep)
    \cup {Pow2(FLT_MANT_DIG - 1) - 1, Pow2(FLT_MANT_DIG - 1)}
    \cup {Pow2(FLT_MANT_DIG) - 1, Pow2(FLT_MANT_DIG), Pow2(FLT_MANT_DIG) + 1}

\* Percentages the engine passes to Update.
Percentages == {F_minus1, F_0_0, F_0_5, F_1_0}

\* Mutant of BridgeProgressHandler_Update: what the callback returns is
\* dropped, as in the phased notifications.
BridgeProgressHandler_Update_AlwaysTrue ==
    \E percentage \in Percentages :
        /\ IF ~phCb
           THEN phLast' = Notified("Update", 0, 0, percentage, <<>>, <<>>, <<>>,
                                   "true")
           ELSE \E b \in BOOLEAN :
                  phLast' = Notified("Update", 0, 0, percentage,
                                     <<CbCall(percentage, NULL, phUser)>>,
                                     <<b>>, <<>>, "true")
        /\ UNCHANGED <<phCb, phUser, apiVars, ioVars, mVars>>

\* bool Update(float percentage)
BridgeProgressHandler_Update ==
    \E percentage \in Percentages :
        /\ IF ~phCb
           THEN phLast' = Notified("Update", 0, 0, percentage, <<>>, <<>>, <<>>,
                                   "true")
           ELSE \E b \in BOOLEAN :
                  phLast' = Notified("Update", 0, 0, percentage,
                                     <<CbCall(percentage, NULL, phUser)>>,
                                     <<b>>, <<>>, BoolResult(b))
        /\ UNCHANGED <<phCb, phUser, apiVars, ioVars, mVars>>

\* A phased notification: nothing without a callback; otherwise the message
\* is formatted, the callback is invoked and what it returns is dropped.
Phased(op, phase, currentStep, numberOfSteps, fraction) ==
    /\ IF ~phCb
       THEN phLast' = Notified(op, currentStep, numberOfSteps, F_0_0,
                               <<>>, <<>>, <<>>, "void")
       ELSE \E b \in BOOLEAN :
              phLast' = Notified(op, currentStep, numberOfSteps, F_0_0,
                                 <<CbCall(fraction.f,
                                          Ptr(snprintf(BufSize, phase, currentStep,
                                                       numberOfSteps)),
                                          phUser)>>,
                                 <<b>>, fraction.divisors, "void")
    /\ UNCHANGED <<phCb, phUser, apiVars, ioVars, mVars>>

\* void UpdateFileRead(int currentStep, int numberOfSteps)
BridgeProgressHandler_UpdateFileRead ==
    \E currentStep \in Steps, numberOfSteps \in Steps :
        Phased("UpdateFileRead", "read", currentStep, numberOfSteps,
               UpdateFileRead_fraction(currentStep, numberOfSteps))

\* void UpdatePostProcess(int currentStep, int numberOfSteps)
BridgeProgressHandler_UpdatePostProcess ==
    \E currentStep \in Steps, numberOfSteps \in Steps :
        Phased("UpdatePostProcess", "post", currentStep, numberOfSteps,
               UpdatePostProcess_fraction(currentStep, numberOfSteps))

\* void UpdateFileWrite(int currentStep, int numberOfSteps)
BridgeProgressHandler_UpdateFileWrite ==
    \E currentStep \in Steps, numberOfSteps \in Steps :
        Phased("UpdateFileWrite", "write", currentStep, numberOfSteps,
               UpdateFileWrite_fraction(currentStep, numberOfSteps))

\* BridgeProgressHandler(c, u): the constructor stores the callback and the
\* user pointer it is given.
PhInit ==
    /\ phCb \in BOOLEAN
    /\ phUser = Ptr("ctx")
    /\ phLast = NotNotified

PhIdle ==
    /\ phCb = FALSE
    /\ phUser = NULL
    /\ phLast = NotNotified

---------------------------------------------------------------------------
(* Specifications *)

\* One thread calling the entry points and aiGetLastErrorStringRust, in
\* either build configuration.
Init == ApiInit(BOOLEAN) /\ IoIdle /\ MIdle /\ PhIdle

Next == ApiStep("T1")

Spec == Init /\ [][Next]_vars

\* The engine driving one RustIOSystem over one table.
InitIO == ApiInit({FALSE}) /\ IoInit /\ MIdle /\ PhIdle

NextIO ==
    \/ RustIOSystem_Exists
    \/ RustIOSystem_Open
    \/ \E pFile \in 0 .. Len(streams) : RustIOSystem_Close(pFile)

SpecIO == InitIO /\ [][NextIO]_vars

\* The two marshallers applied to one descriptor array.
InitProps == ApiInit({FALSE}) /\ IoIdle /\ MInit /\ PhIdle

NextProps ==
    \/ MarshalImport
    \/ MarshalExport

SpecProps == InitProps /\ [][NextProps]_vars

\* The engine notifying one BridgeProgressHandler.
InitProgress == ApiInit({FALSE}) /\ IoIdle /\ MIdle /\ PhInit

NextProgress ==
    \/ BridgeProgressHandler_Update
    \/ BridgeProgressHandler_UpdateFileRead
    \/ BridgeProgressHandler_UpdatePostProcess
    \/ BridgeProgressHandler_UpdateFileWrite

SpecProgress == InitProgress /\ [][NextProgress]_vars

\* Two threads calling the entry points and aiGetLastErrorStringRust, their
\* steps interleaved in every order.
InitThreads == ApiInit({FALSE}) /\ IoIdle /\ MIdle /\ PhIdle

NextThreads == \E t \in Concurrent : ApiStep(t)

SpecThreads == InitThreads /\ [][NextThreads]_vars

---------------------------------------------------------------------------
(* Properties of the error channel and the entry points (Spec) *)

ImportFns == {"ImportFile", "ImportFromMemory"}

\* The most recent call of thread t has returned.
HasReturned(t) == pc[t] = "idle" /\ call[t].fn # "none"

\* The result the most recent call returned is a success result.
Succeeded(r) ==
    \/ r.fn \in ImportFns /\ r.ptr # NULL
    \/ r.fn = "ExportToFile" /\ r.code = "aiReturn_SUCCESS"
    \/ r.fn = "ExportToBlob" /\ r.ptr # NULL

\* The result the most recent call returned is a failure result.
Failed(r) ==
    \/ r.fn \in ImportFns /\ r.ptr = NULL
    \/ r.fn = "ExportToFile" /\ r.code # "aiReturn_SUCCESS"
    \/ r.fn = "ExportToBlob" /\ r.ptr = NULL

\* No engine object was constructed, no property applied, neither the I/O
\* table nor the progress callback invoked during the call.
EngineUntouched(t) == log[t] = <<>> /\ sink[t] = <<>>

\* C1: every entry point clears the calling thread's slot on entry and writes
\* it only on a failure path: while a call that passed validation is wiring
\* or running the engine the slot is empty, and after a call that returned
\* success the slot is empty and aiGetLastErrorStringRust returns null,
\* whatever the slot held when the call was entered.
C1_SuccessLeavesNoError ==
    \A t \in Threads :
        /\ pc[t] \in {"wire", "execute", "finalize"} => g_last_error_msg[t] = ""
        /\ (HasReturned(t) /\ Succeeded(ret[t])) =>
              /\ g_last_error_msg[t] = ""
              /\ got[t].valid => got[t].ptr = NULL

\* A call entered with an error in the slot has returned success and
\* aiGetLastErrorStringRust has then returned null.
C1_Witness ==
    \E t \in Threads :
        /\ HasReturned(t) /\ Succeeded(ret[t])
        /\ slotAtEntry[t] # ""
        /\ got[t].valid /\ got[t].ptr = NULL

\* C2: whenever an entry point returns a failure result, the next
\* aiGetLastErrorStringRust on the thread returns a non-null string, and when
\* the engine reported the failure that string is the engine's error string.
C2_FailureHasMessage ==
    \A t \in Threads :
        (HasReturned(t) /\ Failed(ret[t]) /\ got[t].valid) =>
            /\ got[t].ptr # NULL
            /\ engineError[t] # NULL => got[t].ptr = engineError[t]

\* C3: aiImportFileExWithProgressRust with a null path returns null with the
\* slot holding "Path is null", aiImportFileFromMemoryWithProgressRust with a
\* null buffer or a zero length returns null with the slot holding "Memory
\* buffer is empty", and in both cases nothing of the engine layer happened.
C3_ImportValidation ==
    \A t \in Threads :
        /\ (HasReturned(t) /\ call[t].fn = "ImportFile" /\ call[t].path = NULL) =>
              /\ ret[t] = Returned("ImportFile", NULL, "")
              /\ g_last_error_msg[t] = "Path is null"
              /\ EngineUntouched(t)
        /\ (call[t].fn = "ImportFromMemory"
            /\ (call[t].data = NULL \/ call[t].length = 0)) =>
              /\ pc[t] = "idle"
              /\ ret[t] = Returned("ImportFromMemory", NULL, "")
              /\ g_last_error_msg[t] = "Memory buffer is empty"
              /\ EngineUntouched(t)
        /\ (call[t].fn = "ImportFile" /\ call[t].path = NULL) => pc[t] = "idle"

\* An import from a non-null buffer of length 0, with properties and a
\* callback supplied, has been rejected and the message read back.
C3_Witness ==
    \E t \in Threads :
        /\ HasReturned(t) /\ call[t].fn = "ImportFromMemory"
        /\ call[t].data # NULL /\ call[t].length = 0
        /\ call[t].props # NULL /\ call[t].progress_cb # NULL
        /\ got[t].valid /\ got[t].ptr = Ptr("Memory buffer is empty")

\* The outcome C4 is about: failure code, "Scene is null", engine untouched.
SceneNullOutcome(t) ==
    /\ pc[t] = "idle"
    /\ ret[t] = Returned("ExportToFile", NULL, "aiReturn_FAILURE")
    /\ g_last_error_msg[t] = "Scene is null"
    /\ EngineUntouched(t)

\* C4 as claimed: aiExportSceneExWithPropertiesRust with a null scene returns
\* a failure code and leaves the slot equal to "Scene is null" without
\* touching the engine, for every value of the other arguments and in every
\* build configuration.
C4_SceneNullAnyBuild ==
    \A t \in Threads :
        (call[t].fn = "ExportToFile" /\ call[t].scene = NULL) =>
            SceneNullOutcome(t)

\* C4 as amended: the same, in builds that have export support.
C4_SceneNullWithExport ==
    ~noExport =>
        \A t \in Threads :
            (call[t].fn = "ExportToFile" /\ call[t].scene = NULL) =>
                SceneNullOutcome(t)

\* In a build with export support, an export of a null scene with a null
\* format as well has been rejected for the scene.
C4_Witness ==
    /\ ~noExport
    /\ \E t \in Threads :
        /\ call[t].fn = "ExportToFile" /\ call[t].scene = NULL
        /\ call[t].format_id = NULL /\ call[t].file_io # NULL
        /\ SceneNullOutcome(t)

\* C5: with export support compiled out, aiExportSceneExWithPropertiesRust
\* returns failure and aiExportSceneToBlobWithPropertiesRust returns null for
\* every combination of arguments, the slot holds the capability-absent
\* message, and nothing of the engine layer happened.
C5_NoExportBuild ==
    noExport =>
        \A t \in Threads :
            /\ call[t].fn = "ExportToFile" =>
                  /\ pc[t] = "idle"
                  /\ ret[t] = Returned("ExportToFile", NULL, "aiReturn_FAILURE")
                  /\ g_last_error_msg[t] = MsgNoExport
                  /\ EngineUntouched(t)
            /\ call[t].fn = "ExportToBlob" =>
                  /\ pc[t] = "idle"
                  /\ ret[t] = Returned("ExportToBlob", NULL, "")
                  /\ g_last_error_msg[t] = MsgNoExport
                  /\ EngineUntouched(t)

\* Without export support, a blob export with valid scene and format has been
\* refused and the message read back.
C5_Witness ==
    /\ noExport
    /\ \E t \in Threads :
        /\ call[t].fn = "ExportToBlob"
        /\ call[t].scene # NULL /\ call[t].format_id # NULL
        /\ call[t].props # NULL
        /\ got[t].valid /\ got[t].ptr = Ptr(MsgNoExport)

\* C6: a successful import returns a scene that is not the importer's own
\* and that is live once the importer and the scene it owns are destroyed;
\* when the engine read succeeded and aiCopyScene gave null, the call returns
\* null and the slot holds "aiCopyScene returned null".
C6_DeepCopyDetached ==
    \A t \in Threads :
        (HasReturned(t) /\ call[t].fn \in ImportFns /\ log[t] # <<>>) =>
            /\ log[t][Len(log[t])] = "~Importer"
            /\ "importer_scene" \notin heap[t]
            /\ ret[t].ptr # NULL =>
                  /\ ret[t].ptr # Ptr("importer_scene")
                  /\ Deref(ret[t].ptr) \in heap[t]
            /\ (ret[t].ptr = NULL /\ Len(log[t]) > 1
                /\ log[t][Len(log[t]) - 1] = "aiCopyScene") =>
                  g_last_error_msg[t] = "aiCopyScene returned null"

\* An import through a custom I/O table has returned the live copy.
C6_Witness ==
    \E t \in Threads :
        /\ HasReturned(t) /\ call[t].fn = "ImportFile"
        /\ call[t].file_io # NULL
        /\ ret[t].ptr = Ptr("scene_copy")
        /\ heap[t] = {"scene_copy"}

\* The engine read succeeded, the copy gave null, the call returned null.
C6_WitnessCopyFailed ==
    \E t \in Threads :
        /\ HasReturned(t) /\ call[t].fn \in ImportFns
        /\ ret[t].ptr = NULL
        /\ Len(log[t]) > 1 /\ log[t][Len(log[t]) - 1] = "aiCopyScene"

---------------------------------------------------------------------------
(* Properties of the I/O adapter (SpecIO) *)

StreamIds == 1 .. Len(streams)

\* C7 as claimed: when Close has been called twice with the same stream
\* adapter, the table's close operation has been invoked exactly once for its
\* handle, and the second Close neither crashed nor touched the adapter
\* object the first Close had released.
C7_DoubleCloseClosesOnce ==
    \A i \in StreamIds :
        (m_fileio.CloseProc /\ streams[i].closeCalls = 2) =>
            /\ files[streams[i].file].closes = 1
            /\ ~streams[i].usedAfterRelease
            /\ streams[i].deletes = 1
            /\ ~ioLast.crashed

\* C8 as claimed: on every table on which Open succeeds, once the engine has
\* closed a stream (once; no stream was closed twice) the handle OpenProc
\* produced for it has been passed to CloseProc exactly once.
C8_HandleClosedExactlyOnce ==
    (\A j \in StreamIds : streams[j].closeCalls <= 1) =>
        \A i \in StreamIds :
            streams[i].closeCalls = 1 => files[streams[i].file].closes = 1

\* C9: Exists returns false without invoking any table operation when the
\* table, OpenProc or CloseProc is absent; otherwise it invokes OpenProc once,
\* returns true exactly when OpenProc gave a handle, has then passed that
\* handle to CloseProc exactly once, and no stream adapter holds the handle.
C9_Exists ==
    ioLast.op = "Exists" =>
        IF ~m_fileio.table \/ ~m_fileio.OpenProc \/ ~m_fileio.CloseProc
        THEN ~ioLast.ok /\ ioLast.tableOps = <<>>
        ELSE /\ Len(ioLast.tableOps) >= 1
             /\ ioLast.tableOps[1].proc = "OpenProc"
             /\ ioLast.ok <=> ioLast.tableOps[1].file # 0
             /\ ~ioLast.ok => Len(ioLast.tableOps) = 1
             /\ ioLast.ok =>
                  LET f == ioLast.tableOps[1].file
                  IN /\ ioLast.tableOps =
                          <<TableOp("OpenProc", f), TableOp("CloseProc", f)>>
                     /\ files[f].closes = 1
                     /\ \A i \in StreamIds : streams[i].file # f

\* Exists has returned true after a stream had been opened: the handle it
\* opened is closed and is not the stream's.
C9_Witness ==
    /\ ioLast.op = "Exists" /\ ioLast.ok
    /\ Len(streams) = 1 /\ Len(files) = 2
    /\ files[2].closes = 1

\* Exists has returned false on a table whose CloseProc is absent.
C9_WitnessNoClose ==
    /\ ioLast.op = "Exists" /\ ~ioLast.ok
    /\ m_fileio.table /\ m_fileio.OpenProc /\ ~m_fileio.CloseProc

---------------------------------------------------------------------------
(* Properties of the marshallers (SpecProps) *)

\* The descriptor is one the contract says is applied.
Applied(p) ==
    /\ p.name # NULL
    /\ p.kind \in {aiRustPropertyKind_Integer, aiRustPropertyKind_Float,
                 aiRustPropertyKind_String, aiRustPropertyKind_Matrix4x4,
                 aiRustPropertyKind_Boolean}
    /\ p.kind = aiRustPropertyKind_Matrix4x4 => p.matrix_value # NULL

\* The set-property call the contract maps an applied descriptor to.
Mapped(p) ==
    LET n == p.name[1]
    IN CASE p.kind = aiRustPropertyKind_Integer ->
              [op |-> "SetPropertyInteger", name |-> n,
               int |-> p.int_value, bool |-> FALSE, val |-> ""]
         [] p.kind = aiRustPropertyKind_Boolean ->
              [op |-> "SetPropertyBool", name |-> n, int |-> 0,
               bool |-> (p.int_value # 0), val |-> ""]
         [] p.kind = aiRustPropertyKind_Float ->
              [op |-> "SetPropertyFloat", name |-> n, int |-> 0,
               bool |-> FALSE, val |-> p.float_value]
         [] p.kind = aiRustPropertyKind_String ->
              [op |-> "SetPropertyString", name |-> n, int |-> 0,
               bool |-> FALSE,
               val |-> IF p.string_value = <<>> THEN "" ELSE p.string_value[1]]
         [] p.kind = aiRustPropertyKind_Matrix4x4 ->
              [op |-> "SetPropertyMatrix", name |-> n, int |-> 0,
               bool |-> FALSE, val |-> p.matrix_value[1]]

\* The calls the contract prescribes for the marshaller's input.
Prescribed ==
    IF mProps = NULL THEN <<>>
    ELSE LET kept == SelectSeq(mProps[1], Applied)
         IN [i \in 1 .. Len(kept) |-> Mapped(kept[i])]

\* C10: for every descriptor array, the set-property calls either marshaller
\* issues are, in array order, the descriptors mapped by kind, with the
\* descriptors left out whose name is null, whose kind is unrecognized or
\* whose Matrix4x4 pointer is null; a descriptor left out stops nothing.
C10_MarshalledCalls ==
    /\ mDone \in {"import", "both"} => mSink = Prescribed
    /\ mDone \in {"export", "both"} => mExportSink = Prescribed

\* The import marshaller has run on an array whose first descriptor is left
\* out (null name) and whose second is a Boolean with value 2, applied as true.
C10_Witness ==
    /\ mDone = "import"
    /\ mProps # NULL /\ mCount = 2
    /\ mProps[1][1].name = NULL
    /\ mProps[1][2].name # NULL
    /\ mProps[1][2].kind = aiRustPropertyKind_Boolean
    /\ mProps[1][2].int_value = 2
    /\ Len(mSink) = 1 /\ mSink[1].bool = TRUE

---------------------------------------------------------------------------
(* Properties of the progress adapter (SpecProgress) *)

PhasedOps == {"UpdateFileRead", "UpdatePostProcess", "UpdateFileWrite"}

\* The percentage the callback received in the most recent notification.
Delivered == phLast.calls[1].percentage

\* C11: with a callback installed and numberOfSteps = 0, the file-read
\* update delivers 0.0 and the post-process update delivers 1.0, whatever
\* currentStep is; the callback is invoked once, and no float division is
\* performed, so none has a zero divisor.
C11_ZeroTotalReadAndPost ==
    /\ \A i \in 1 .. Len(phLast.divisors) : phLast.divisors[i] # <<0, 0>>
    /\ (phCb /\ phLast.numberOfSteps = 0
             /\ phLast.op \in {"UpdateFileRead", "UpdatePostProcess"}) =>
          /\ Len(phLast.calls) = 1
          /\ phLast.divisors = <<>>
          /\ Delivered = IF phLast.op = "UpdateFileRead" THEN <<0, 0>>
                         ELSE <<1, 0>>

\* A post-process update with numberOfSteps = 0 and a non-zero currentStep
\* has reached the callback.
C11_Witness ==
    /\ phCb
    /\ phLast.op = "UpdatePostProcess"
    /\ phLast.numberOfSteps = 0
    /\ phLast.currentStep > 0
    /\ Len(phLast.calls) = 1

\* C12: with a callback installed and numberOfSteps = 0, the file-write
\* update delivers 0.0, the value the file-read update delivers.
C12_ZeroTotalWrite ==
    (phCb /\ phLast.numberOfSteps = 0 /\ phLast.op = "UpdateFileWrite") =>
        /\ Len(phLast.calls) = 1
        /\ Delivered = <<0, 0>>
        /\ Delivered = UpdateFileRead_fraction(phLast.currentStep, 0).f

\* The word that opens the message of a phased notification.
PhaseWord(op) ==
    CASE op = "UpdateFileRead" -> "read"
      [] op = "UpdatePostProcess" -> "post"
      [] op = "UpdateFileWrite" -> "write"

\* C17: Update returns true without invoking anything when no callback is
\* installed; with a callback it invokes it exactly once, with the percentage
\* it was given and a null message, and returns what the callback returned.
\* A phased notification invokes nothing when no callback is installed;
\* with a callback it invokes it exactly once, with the non-null message
\* "<phase> <step>/<total>", and returns nothing whatever the callback
\* returned.
C17_Notifications ==
    /\ phLast.op = "Update" =>
         IF ~phCb
         THEN phLast.calls = <<>> /\ phLast.result = "true"
         ELSE /\ Len(phLast.calls) = 1
              /\ phLast.calls[1].percentage = phLast.percentage
              /\ phLast.calls[1].message = NULL
              /\ phLast.calls[1].user = phUser
              /\ Len(phLast.cbRets) = 1
              /\ phLast.result = (IF phLast.cbRets[1] THEN "true" ELSE "false")
    /\ phLast.op \in PhasedOps =>
         IF ~phCb
         THEN phLast.calls = <<>> /\ phLast.result = "void"
         ELSE /\ Len(phLast.calls) = 1
              /\ phLast.calls[1].message # NULL
              /\ Deref(phLast.calls[1].message) =
                   PhaseWord(phLast.op) \o " " \o ToString(phLast.currentStep)
                     \o "/" \o ToString(phLast.numberOfSteps)
              /\ phLast.calls[1].user = phUser
              /\ Len(phLast.cbRets) = 1
              /\ phLast.result = "void"

\* Update(-1) has reached a callback that returned false.
C17_Witness ==
    /\ phCb
    /\ phLast.op = "Update"
    /\ phLast.percentage = <<-1, 0>>
    /\ phLast.cbRets = <<FALSE>>

\* A phased notification has reached a callback that returned false.
C17_WitnessPhased ==
    /\ phCb
    /\ phLast.op = "UpdateFileWrite"
    /\ phLast.currentStep = 2
    /\ phLast.numberOfSteps = 3
    /\ phLast.cbRets = <<FALSE>>

\* The case of C18: a phased notification with 0 <= currentStep <=
\* numberOfSteps and numberOfSteps > 0 has reached the callback.
InRange ==
    /\ phCb
    /\ phLast.op \in PhasedOps
    /\ phLast.numberOfSteps > 0
    /\ 0 <= phLast.currentStep
    /\ phLast.currentStep <= phLast.numberOfSteps

\* Ends of the interval of a phase.
Lower(op) == IF op = "UpdatePostProcess" THEN <<1, -1>> ELSE <<0, 0>>
Upper(op) == IF op = "UpdatePostProcess" THEN <<1, 0>> ELSE <<1, -1>>

\* What the handler of op passes for (currentStep, numberOfSteps).
FractionOf(op, currentStep, numberOfSteps) ==
    CASE op = "UpdateFileRead" -> UpdateFileRead_fraction(currentStep, numberOfSteps).f
      [] op = "UpdatePostProcess" -> UpdatePostProcess_fraction(currentStep, numberOfSteps).f
      [] op = "UpdateFileWrite" -> UpdateFileWrite_fraction(currentStep, numberOfSteps).f

\* The delivered fraction lies in the interval of its phase.
WithinInterval ==
    /\ FLeq(Lower(phLast.op), Delivered)
    /\ FLeq(Delivered, Upper(phLast.op))

\* The delivered fraction is currentStep / numberOfSteps scaled into the
\* interval, stated for the totals 1 and 2, where the quotient is exact.
ScaledExactly ==
    /\ phLast.numberOfSteps = 1 =>
         Delivered = IF phLast.op = "UpdatePostProcess"
                     THEN Float(phLast.currentStep + 1, -1)
                     ELSE Float(phLast.currentStep, -1)
    /\ phLast.numberOfSteps = 2 =>
         Delivered = IF phLast.op = "UpdatePostProcess"
                     THEN Float(phLast.currentStep + 2, -2)
                     ELSE Float(phLast.currentStep, -2)

\* No smaller currentStep of the same total is given a larger fraction.
NonDecreasing ==
    \A c \in Steps :
        c <= phLast.currentStep =>
            FLeq(FractionOf(phLast.op, c, phLast.numberOfSteps), Delivered)

\* C18 as stated: in range, the delivered fraction is currentStep /
\* numberOfSteps scaled into the interval of the phase, is non-decreasing in
\* currentStep, and is the upper end of the interval exactly when
\* currentStep = numberOfSteps.
C18_UpperEndExactlyAtTotal ==
    InRange =>
        /\ WithinInterval
        /\ ScaledExactly
        /\ NonDecreasing
        /\ (Delivered = Upper(phLast.op)) <=> (phLast.currentStep = phLast.numberOfSteps)

\* C18, amended: in range, the delivered fraction is currentStep /
\* numberOfSteps scaled into the interval of the phase, is non-decreasing in
\* currentStep, and is the upper end of the interval when currentStep =
\* numberOfSteps; for numberOfSteps up to 2^23 it is the upper end only then.
C18_UpperEndAtTotal ==
    InRange =>
        /\ WithinInterval
        /\ ScaledExactly
        /\ NonDecreasing
        /\ phLast.currentStep = phLast.numberOfSteps => Delivered = Upper(phLast.op)
        /\ (phLast.numberOfSteps <= 8388608 /\ Delivered = Upper(phLast.op)) =>
              phLast.currentStep = phLast.numberOfSteps

\* The last step of a total that a float does not hold exactly has been
\* reported, and the one before it of the same total is given the same
\* fraction.
C18_Witness ==
    /\ InRange
    /\ phLast.numberOfSteps = 16777217
    /\ phLast.currentStep = phLast.numberOfSteps
    /\ Delivered = Upper(phLast.op)
    /\ FractionOf(phLast.op, phLast.currentStep - 1, phLast.numberOfSteps) = Delivered

---------------------------------------------------------------------------
(* Properties of the error channel under concurrency (SpecThreads) *)

\* The message the most recent call of thread t, which has returned, left by
\* what the call itself did: the message of the validation that failed, the
\* engine's error string, the copy failure, or nothing.
OwnOutcome(t) ==
    LET c == call[t]
    IN IF c.fn = "none" THEN ""
       ELSE IF EngineUntouched(t)
       THEN CASE c.fn = "ImportFile" -> "Path is null"
              [] c.fn = "ImportFromMemory" -> "Memory buffer is empty"
              [] c.fn \in {"ExportToFile", "ExportToBlob"} /\ noExport ->
                   "Assimp was built without export support (ASSIMP_BUILD_NO_EXPORT)"
              [] c.fn \in {"ExportToFile", "ExportToBlob"} /\ ~noExport
                   /\ c.scene = NULL -> "Scene is null"
              [] c.fn = "ExportToFile" /\ ~noExport /\ c.scene # NULL ->
                   "Format ID or path is null"
              [] c.fn = "ExportToBlob" /\ ~noExport /\ c.scene # NULL ->
                   "Format ID is null"
       ELSE IF engineError[t] # NULL THEN Deref(engineError[t])
       ELSE IF c.fn \in ImportFns /\ ret[t].ptr = NULL
       THEN "aiCopyScene returned null"
       ELSE ""

\* C13: under every interleaving of two threads' calls, the slot a thread
\* reads holds what that thread's own most recent call left, and
\* aiGetLastErrorStringRust on the thread returns exactly that: a failure or
\* a clear-on-entry of the other thread never shows.
C13_ThreadLocalSlot ==
    \A t \in Threads :
        (pc[t] = "idle") =>
            /\ g_last_error_msg[t] = OwnOutcome(t)
            /\ got[t].valid =>
                 got[t].ptr = IF OwnOutcome(t) = "" THEN NULL
                              ELSE Ptr(OwnOutcome(t))

\* T2 has read its own failure message while T3, which had entered its
\* current call with an error in its slot, is inside the engine with its
\* slot cleared.
C13_Witness ==
    /\ HasReturned("T2") /\ Failed(ret["T2"])
    /\ got["T2"].valid /\ got["T2"].ptr # NULL
    /\ pc["T3"] = "execute"
    /\ slotAtEntry["T3"] # ""
    /\ g_last_error_msg["T3"] = ""

---------------------------------------------------------------------------
(* Ownership of the adapters (Spec) *)

\* The most recent call of thread t has ended: it returned, or the process
\* crashed while it was returning.
HasEnded(t) == pc[t] \in {"idle", "crashed"} /\ call[t].fn # "none"

\* C14: every I/O adapter and progress adapter a call constructs is owned by
\* the call frame: it is not released while the call is running and has
\* been released exactly once when the call has ended, on success and on
\* failure alike, the teardown of the importer or exporter not releasing it
\* again; and neither the I/O table nor the progress callback is invoked
\* after the teardown.
C14_AdaptersReleasedOnce ==
    \A t \in Threads :
        /\ pc[t] \in {"wire", "execute", "finalize"} =>
             /\ adapters[t].io.releases = 0
             /\ adapters[t].ph.releases = 0
        /\ HasEnded(t) =>
             /\ adapters[t].io.built => adapters[t].io.releases = 1
             /\ adapters[t].ph.built => adapters[t].ph.releases = 1
             /\ ~adapters[t].io.built => adapters[t].io.releases = 0
             /\ ~adapters[t].ph.built => adapters[t].ph.releases = 0
        /\ \A i \in 1 .. Len(log[t]) : \A j \in 1 .. Len(log[t]) :
             (i < j /\ log[t][i] \in {"~Importer", "~Exporter"}) =>
                 log[t][j] \notin {"aiFileIO", "progress_cb"}

---------------------------------------------------------------------------
(* The accessor of the error channel (Spec) *)

\* C15: aiGetLastErrorStringRust only reads: what it returned is null
\* exactly when the slot is empty and points at the slot's contents
\* otherwise, and the slot still holds what it held, so that calling it
\* again returns the same.
C15_AccessorReadOnly ==
    \A t \in Threads :
        got[t].valid =>
            /\ (got[t].ptr = NULL) <=> (g_last_error_msg[t] = "")
            /\ got[t].ptr # NULL => Deref(got[t].ptr) = g_last_error_msg[t]
            /\ aiGetLastErrorStringRust_value(g_last_error_msg[t]) = got[t].ptr

\* aiGetLastErrorStringRust has returned the message of a failed call.
C15_Witness ==
    \E t \in Threads :
        /\ HasReturned(t)
        /\ got[t].valid
        /\ got[t].ptr = Ptr("Format ID or path is null")
        /\ g_last_error_msg[t] = "Format ID or path is null"

---------------------------------------------------------------------------
(* The order of a call's steps (Spec) *)

Count(l, e) == Cardinality({i \in 1 .. Len(l) : l[i] = e})

\* Where the event e, which occurs in l, occurs first.
Index(l, e) == CHOOSE i \in 1 .. Len(l) : l[i] = e /\ \A j \in 1 .. i - 1 : l[j] # e

\* Every a in l comes before every b in l.
Precedes(l, a, b) ==
    \A i \in 1 .. Len(l) : \A j \in 1 .. Len(l) :
        (l[i] = a /\ l[j] = b) => i < j

\* The engine-layer events of the entry point fn.
Constructor(fn) == IF fn \in ImportFns THEN "Importer" ELSE "Exporter"
Destructor(fn) == IF fn \in ImportFns THEN "~Importer" ELSE "~Exporter"
Marshaller(fn) ==
    IF fn \in ImportFns THEN "apply_properties" ELSE "apply_export_properties"
Operation(fn) ==
    CASE fn = "ImportFile" -> "ReadFile"
      [] fn = "ImportFromMemory" -> "ReadFileFromMemory"
      [] fn = "ExportToFile" -> "Export"
      [] fn = "ExportToBlob" -> "ExportToBlob"

\* The path or hint the engine operation of call c is to be invoked with.
OperationArg(c) ==
    CASE c.fn = "ImportFile" -> Deref(c.path)
      [] c.fn = "ImportFromMemory" -> IF c.hint = NULL THEN "" ELSE Deref(c.hint)
      [] c.fn = "ExportToFile" -> Deref(c.path)
      [] c.fn = "ExportToBlob" -> ""

\* How many descriptors of call c are to be applied: those with a name.
Applicable(c) ==
    IF c.props = NULL THEN 0
    ELSE Cardinality({i \in 1 .. c.props_count : Deref(c.props)[i].name # NULL})

\* The call of thread t has passed validation and has been wired.
IsWired(t) ==
    \/ pc[t] \in {"execute", "finalize"}
    \/ pc[t] \in {"idle", "crashed"} /\ call[t].fn # "none" /\ log[t] # <<>>

\* The engine operation of the call of thread t is over.
HasExecuted(t) == IsWired(t) /\ pc[t] # "execute"

\* C16: in every call that passes validation the steps occur in the order
\* Init, Wire, Execute, Finalize, Teardown.  The engine object is
\* constructed first; each adapter that was asked for is constructed and
\* attached once, and all properties are applied, before the engine
\* operation starts; the engine operation is invoked exactly once, and it is
\* the one of the entry point: ReadFile with the path, ReadFileFromMemory
\* with the hint or with the empty hint when the hint is null, Export with
\* the path, ExportToBlob; callbacks, the scene copy and the blob detachment
\* come after it, and the destruction of the engine object comes last.
C16_StepOrder ==
    \A t \in Threads :
        LET c == call[t]
            l == log[t]
        IN /\ pc[t] = "wire" => l = <<>> /\ engineOps[t] = <<>>
           /\ IsWired(t) =>
                /\ l[1] = Constructor(c.fn)
                /\ Count(l, Constructor(c.fn)) = 1
                /\ Count(l, "SetIOHandler") = (IF c.file_io # NULL THEN 1 ELSE 0)
                /\ Count(l, "RustIOSystem") = Count(l, "SetIOHandler")
                /\ Count(l, "SetProgressHandler") =
                     (IF c.progress_cb # NULL THEN 1 ELSE 0)
                /\ Count(l, "BridgeProgressHandler") = Count(l, "SetProgressHandler")
                /\ Precedes(l, "RustIOSystem", "SetIOHandler")
                /\ Precedes(l, "BridgeProgressHandler", "SetProgressHandler")
                /\ Precedes(l, "SetIOHandler", Marshaller(c.fn))
                /\ Precedes(l, "SetProgressHandler", Marshaller(c.fn))
                /\ Count(l, Marshaller(c.fn)) = 1
                /\ Len(sink[t]) = Applicable(c)
                /\ pc[t] = "execute" =>
                     /\ l[Len(l)] = Marshaller(c.fn)
                     /\ engineOps[t] = <<>>
           /\ HasExecuted(t) =>
                /\ engineOps[t] = <<[op |-> Operation(c.fn), arg |-> OperationArg(c)]>>
                /\ Count(l, Operation(c.fn)) = 1
                /\ Index(l, Operation(c.fn)) = Index(l, Marshaller(c.fn)) + 1
                /\ \A e \in {"aiFileIO", "progress_cb", "aiCopyScene",
                             "GetOrphanedBlob", Destructor(c.fn)} :
                       Precedes(l, Operation(c.fn), e)
                /\ pc[t] = "finalize" => Count(l, Destructor(c.fn)) = 0
           /\ (IsWired(t) /\ pc[t] \in {"idle", "crashed"}) =>
                /\ Count(l, Destructor(c.fn)) = 1
                /\ l[Len(l)] = Destructor(c.fn)

\* An import from memory with a null hint, a progress callback and an array
\* of descriptors has run to its end.
C16_Witness ==
    \E t \in Threads :
        /\ call[t].fn = "ImportFromMemory"
        /\ call[t].hint = NULL
        /\ call[t].progress_cb # NULL
        /\ call[t].props # NULL
        /\ pc[t] = "idle"
        /\ engineOps[t] = <<[op |-> "ReadFileFromMemory", arg |-> ""]>>
        /\ ret[t].ptr # NULL

---------------------------------------------------------------------------
(* The two marshallers side by side (SpecProps) *)

\* C19: on every descriptor array, the null array with a non-zero count
\* included, the import marshaller and the export marshaller issue the same
\* sequence of set-property calls, with the same names and values; on the
\* null array both issue none.
C19_MarshallersAgree ==
    mDone = "both" =>
        /\ Len(mSink) = Len(mExportSink)
        /\ \A i \in 1 .. Len(mSink) :
             /\ mSink[i].op = mExportSink[i].op
             /\ mSink[i].name = mExportSink[i].name
             /\ mSink[i].int = mExportSink[i].int
             /\ mSink[i].bool = mExportSink[i].bool
             /\ mSink[i].val = mExportSink[i].val
        /\ mProps = NULL => mSink = <<>> /\ mExportSink = <<>>

\* Both marshallers have run on an array of a String with a null value and a
\* Matrix4x4 with a matrix, and both have issued two calls.
C19_Witness ==
    /\ mDone = "both"
    /\ mProps # NULL /\ mCount = 2
    /\ mProps[1][1].name # NULL
    /\ mProps[1][1].kind = aiRustPropertyKind_String
    /\ mProps[1][1].string_value = NULL
    /\ mProps[1][2].name # NULL
    /\ mProps[1][2].kind = aiRustPropertyKind_Matrix4x4
    /\ mProps[1][2].matrix_value # NULL
    /\ Len(mSink) = 2 /\ Len(mExportSink) = 2

\* Both marshallers have run on the null array with a non-zero count.
C19_WitnessNullArray ==
    /\ mDone = "both"
    /\ mProps = NULL /\ mCount = 2
    /\ mSink = <<>> /\ mExportSink = <<>>

=============================================================================
